---- MODULE Spec2Model ----
(***************************************************************************)
(* Model of the MARS oral-history interview system's context and           *)
(* knowledge-extraction pipeline: ContextManager, KnowledgeExtractor and   *)
(* the InterviewManager orchestrator over the sessions/messages tables.    *)
(***************************************************************************)
EXTENDS Integers, Sequences, FiniteSets, TLC

VARIABLES
    cm,        \* the ContextManager instance: max_messages, extraction_interval
    call,      \* the last call made: its operation, arguments and outcome
    sessions,  \* table sessions: id -> row
    messages,  \* table messages: rows in insertion order
    ops,       \* number of orchestrator calls made so far
    tts,       \* speech synthesis: the audio cache directory, the provider
               \* invocations and the synthesize requests made so far
    tokens,    \* the tokens file: token -> its record
    cookies,   \* the signed session cookie each browser holds
    threads,   \* the calls in flight: each thread's position and locals
    extracted, \* history: the user messages handed to an extraction so far
    revoked    \* history: the tokens a revoke_token call returned True for

vars == <<cm, call, sessions, messages, ops, tts, tokens, cookies, threads,
          extracted, revoked>>

\* the state outside the interview pipeline
plumbing == <<tts, tokens, cookies, threads, revoked>>

\* the threads of the server and a thread that has not served a call yet
Threads == {"t1", "t2"}
NoThread == [pc |-> "done", op |-> "none"]

NoTts == [files |-> <<>>, provider_calls |-> 0, requests |-> <<>>]

PlumbingInit ==
    /\ tts = NoTts
    /\ tokens = <<>>
    /\ cookies = <<>>
    /\ threads = [t \in Threads |-> NoThread]
    /\ extracted = {}
    /\ revoked = {}

NoCall == [op |-> "none"]

(***************************************************************************)
(* Program constants and model bounds                                      *)
(***************************************************************************)
MAX_CONTEXT_MESSAGES == 30
EXTRACTION_INTERVAL == 10
EXTRACTION_LOOKBACK == 20     \* messages[-20:] in _run_extraction
COST_PER_CHAR == 30           \* premium preset, in millionths of a dollar

MaxCount == 41      \* largest message count handed to should_extract
MaxInterval == 3    \* largest explicit extraction_interval argument
MaxWindow == 3      \* largest explicit max_messages argument
MaxHist == 3        \* longest history handed to build_context
MaxList == 2        \* longest list handed to _merge_unique
MaxMerges == 3      \* longest chain of merges into one record
MaxOps == 4         \* orchestrator calls in one run
MaxLongOps == 12    \* orchestrator calls in one long interview
MaxTtsCalls == 2    \* synthesize requests in one run
MaxAuthOps == 4     \* token commands and HTTP requests in one run
MaxDropOps == 18    \* orchestrator calls in one interview with failing turns
MaxFailures == 1    \* failing turns in that interview
MaxTokCalls == 4    \* token function calls in one run
MaxStepCalls == 4   \* requests served by the two threads in one run

Min(a, b) == IF a < b THEN a ELSE b

Roles == {"user", "assistant"}
Contents == {"a", "b"}

(***************************************************************************)
(* ContextManager                                                          *)
(***************************************************************************)

\* Config: int(os.getenv(name, default)); env maps the variables that are set
ConfigFromEnv(env) ==
    [MAX_CONTEXT_MESSAGES |->
        IF "MAX_CONTEXT_MESSAGES" \in DOMAIN env THEN env.MAX_CONTEXT_MESSAGES
        ELSE MAX_CONTEXT_MESSAGES,
     EXTRACTION_INTERVAL |->
        IF "EXTRACTION_INTERVAL" \in DOMAIN env THEN env.EXTRACTION_INTERVAL
        ELSE EXTRACTION_INTERVAL]

\* ContextManager.__init__: `x or Config.X`; the argument 0 stands for an
\* omitted (None) or zero argument, both of which select the configured value.
ContextManager(Config, max_messages, extraction_interval) ==
    [max_messages |-> IF max_messages # 0 THEN max_messages
                      ELSE Config.MAX_CONTEXT_MESSAGES,
     extraction_interval |-> IF extraction_interval # 0 THEN extraction_interval
                             ELSE Config.EXTRACTION_INTERVAL]

\* mutant: the first max_messages messages instead of the last
windowed_messages_first(self, all_messages) ==
    IF Len(all_messages) > self.max_messages
    THEN SubSeq(all_messages, 1, self.max_messages)
    ELSE all_messages

\* all_messages[-max_messages:] when longer than the window, else all of it
windowed_messages(self, all_messages) ==
    IF Len(all_messages) > self.max_messages
    THEN SubSeq(all_messages, Len(all_messages) - self.max_messages + 1,
                Len(all_messages))
    ELSE all_messages

\* {"role": msg["role"], "content": msg["content"]}
strip_message(msg) == [role |-> msg.role, content |-> msg.content]

build_context(self, all_messages) ==
    LET w == windowed_messages(self, all_messages)
    IN [i \in 1..Len(w) |-> strip_message(w[i])]

\* mutant: the guard exchanges > 0 left out
should_extract_no_guard(self, message_count) ==
    (message_count \div 2) % self.extraction_interval = 0

\* mutant: the message count, not the exchange count, tested against twice
\* the interval
should_extract_even_only(self, message_count) ==
    message_count > 0 /\ message_count % (2 * self.extraction_interval) = 0

should_extract(self, message_count) ==
    LET exchanges == message_count \div 2
    IN exchanges > 0 /\ exchanges % self.extraction_interval = 0

(***************************************************************************)
(* Python and JSON values.  A JSON value is tagged with its Python type;   *)
(* a text is a sequence of chunks, each a run of plain characters (w) or   *)
(* the serialisation of one JSON value (doc).                              *)
(***************************************************************************)
PyNone == [t |-> "null"]
JNum(n) == [t |-> "num", n |-> n]
JStr(s) == [t |-> "str", s |-> s]
JList(l) == [t |-> "list", l |-> l]
JDict(d) == [t |-> "dict", d |-> d]

\* Python truth value: None, 0, "", [] and {} are false
Truthy(v) ==
    CASE v.t = "null" -> FALSE
      [] v.t = "num" -> v.n # 0
      [] v.t = "str" -> v.s # ""
      [] v.t = "list" -> v.l # <<>>
      [] v.t = "dict" -> DOMAIN v.d # {}

Ok(v) == [ok |-> TRUE, val |-> v]
Raise(e) == [ok |-> FALSE, err |-> e]

Word(s) == [w |-> s]
Doc(v) == [doc |-> v]
IsDoc(chunk) == "doc" \in DOMAIN chunk

\* json.dumps(v)
json_dumps(v) == <<Doc(v)>>

\* json.loads(text): the text must be exactly one JSON value
json_loads(text) ==
    IF Len(text) = 1 /\ IsDoc(text[1]) THEN Ok(text[1].doc)
    ELSE Raise("JSONDecodeError")

HasOpenBrace(chunk) ==
    IF IsDoc(chunk) THEN chunk.doc.t = "dict" ELSE chunk.w = "{"
HasCloseBrace(chunk) ==
    IF IsDoc(chunk) THEN chunk.doc.t = "dict" ELSE chunk.w = "}"

\* str.find / str.rfind, 0-based, -1 when there is no occurrence
find_open(text) ==
    IF \E i \in 1..Len(text) : HasOpenBrace(text[i])
    THEN (CHOOSE i \in 1..Len(text) :
             /\ HasOpenBrace(text[i])
             /\ \A j \in 1..(i - 1) : ~HasOpenBrace(text[j])) - 1
    ELSE -1
rfind_close(text) ==
    IF \E i \in 1..Len(text) : HasCloseBrace(text[i])
    THEN (CHOOSE i \in 1..Len(text) :
             /\ HasCloseBrace(text[i])
             /\ \A j \in (i + 1)..Len(text) : ~HasCloseBrace(text[j])) - 1
    ELSE -1

(***************************************************************************)
(* KnowledgeExtractor                                                      *)
(***************************************************************************)
Categories == {"topics_discussed", "key_insights", "people_mentioned",
               "technical_details", "lessons_learned", "open_questions",
               "follow_up_topics"}

\* the empty structure _extract_json_from_text falls back to
EmptyKnowledge == JDict([k \in Categories |-> <<>>])

\* dict.get(key, default)
Get(d, key, default) == IF key \in DOMAIN d THEN d[key] ELSE default

\* str.lower() on the strings of the model
Lower(s) ==
    CASE s = "ALE" -> "ale"
      [] s = "MS-DMT" -> "ms-dmt"
      [] s = "MARS-ALE" -> "mars-ale"
      [] s = "Bob" -> "bob"
      [] s = "Lesson" -> "lesson"
      [] OTHER -> s

RECURSIVE merge_unique_loop(_, _, _, _)
merge_unique_loop(items, i, seen, result) ==
    IF i > Len(items) THEN result
    ELSE LET item_lower == Lower(items[i])
         IN IF item_lower \notin seen
            THEN merge_unique_loop(items, i + 1, seen \cup {item_lower},
                                   Append(result, items[i]))
            ELSE merge_unique_loop(items, i + 1, seen, result)

\* mutant: duplicates recognised by exact spelling, without .lower()
_merge_unique_exact(list1, list2) ==
    LET c == list1 \o list2
        keep == {i \in 1..Len(c) : \A j \in 1..(i - 1) : c[j] # c[i]}
    IN [k \in 1..Cardinality(keep) |->
          c[CHOOSE i \in keep : Cardinality({j \in keep : j < i}) = k - 1]]

_merge_unique(list1, list2) == merge_unique_loop(list1 \o list2, 1, {}, <<>>)

\* the loop shared by _merge_insights (key "topic") and _merge_people
\* (key "name"): append the items of new whose key was not seen
RECURSIVE merge_keyed_loop(_, _, _, _, _)
merge_keyed_loop(key, new, i, seen, result) ==
    IF i > Len(new) THEN result
    ELSE LET k == Lower(Get(new[i], key, ""))
         IN IF k \notin seen
            THEN merge_keyed_loop(key, new, i + 1, seen \cup {k},
                                  Append(result, new[i]))
            ELSE merge_keyed_loop(key, new, i + 1, seen, result)

\* mutant: the topics of the existing insights are not put into seen_topics
_merge_insights_unseeded(existing, new) ==
    merge_keyed_loop("topic", new, 1, {}, existing)

_merge_insights(existing, new) ==
    merge_keyed_loop("topic", new, 1,
                     {Lower(Get(existing[i], "topic", "")) : i \in 1..Len(existing)},
                     existing)

_merge_people(existing, new) ==
    merge_keyed_loop("name", new, 1,
                     {Lower(Get(existing[i], "name", "")) : i \in 1..Len(existing)},
                     existing)

\* merge_knowledge: `not existing` / `not new` are Python truth tests; a
\* truthy value that is not a dict has no .get and raises AttributeError
merge_knowledge(existing, new) ==
    IF ~Truthy(existing) THEN Ok(new)
    ELSE IF ~Truthy(new) THEN Ok(existing)
    ELSE IF existing.t # "dict" \/ new.t # "dict" THEN Raise("AttributeError")
    ELSE LET e == existing.d
             n == new.d
         IN Ok(JDict(
              [k \in Categories |->
                 CASE k = "topics_discussed" ->
                        _merge_unique(Get(e, k, <<>>), Get(n, k, <<>>))
                   [] k = "key_insights" ->
                        _merge_insights(Get(e, k, <<>>), Get(n, k, <<>>))
                   [] k = "people_mentioned" ->
                        _merge_people(Get(e, k, <<>>), Get(n, k, <<>>))
                   [] k = "technical_details" ->
                        Get(e, k, <<>>) \o Get(n, k, <<>>)
                   [] k = "lessons_learned" ->
                        _merge_unique(Get(e, k, <<>>), Get(n, k, <<>>))
                   [] k = "open_questions" -> Get(n, k, <<>>)
                   [] k = "follow_up_topics" -> Get(n, k, <<>>)]))

_extract_json_from_text(text) ==
    LET start_idx == find_open(text)
        end_idx == rfind_close(text) + 1
        parsed == IF start_idx # -1 /\ end_idx > start_idx
                  THEN json_loads(SubSeq(text, start_idx + 1, end_idx))
                  ELSE Raise("JSONDecodeError")
    IN IF parsed.ok THEN parsed.val ELSE EmptyKnowledge

\* extract: response is the outcome of claude.send_message, a text or a
\* provider error, which is not caught
extract(response) ==
    IF ~response.ok THEN response
    ELSE LET direct == json_loads(response.val)
         IN IF direct.ok THEN direct
            ELSE Ok(_extract_json_from_text(response.val))

\* the shapes of the items of a record, and a record with all seven
\* categories filled
Insight(topic, insight) == [topic |-> topic, insight |-> insight]
Person(name, callsign) == [name |-> name, callsign |-> callsign]
Detail(system, detail) == [system |-> system, detail |-> detail]

FullRecord ==
    JDict([topics_discussed |-> <<"MS-DMT">>,
           key_insights |-> <<Insight("MS-DMT", "i0")>>,
           people_mentioned |-> <<Person("Bob", "K1ABC")>>,
           technical_details |-> <<Detail("ALE", "d0")>>,
           lessons_learned |-> <<"Lesson">>,
           open_questions |-> <<"q0">>,
           follow_up_topics |-> <<"f0">>])

(***************************************************************************)
(* The persistent store: tables sessions and messages                      *)
(***************************************************************************)
DbNull == [c |-> "NULL"]
DbText(text) == [c |-> "TEXT", text |-> text]

\* Session.create: the INSERT and the column defaults of init_db
Session_create(rows, session_id, voice_preset, speech_rate) ==
    [k \in DOMAIN rows \cup {session_id} |->
        IF k = session_id
        THEN [status |-> "active", extracted_knowledge |-> DbNull,
              message_count |-> 0, voice_preset |-> voice_preset,
              speech_rate |-> speech_rate, total_chars_synthesized |-> 0,
              estimated_cost |-> 0]
        ELSE rows[k]]

\* Session.get_by_id: None for no row; a non-empty extracted_knowledge
\* column is parsed with json.loads, whose error is not caught
Session_get_by_id(rows, session_id) ==
    IF session_id \notin DOMAIN rows THEN Ok(PyNone)
    ELSE LET row == rows[session_id]
             col == row.extracted_knowledge
         IN IF col.c = "NULL" THEN Ok([row EXCEPT !.extracted_knowledge = PyNone])
            ELSE IF col.text = <<>>
            THEN Ok([row EXCEPT !.extracted_knowledge = JStr("")])
            ELSE LET parsed == json_loads(col.text)
                 IN IF parsed.ok
                    THEN Ok([row EXCEPT !.extracted_knowledge = parsed.val])
                    ELSE parsed

\* the value bound to the extracted_knowledge column by Session.update: a
\* dict goes through json.dumps, None is NULL, a number or a string is
\* stored as its text, a list cannot be bound
knowledge_column(v) ==
    CASE v.t = "dict" -> Ok(DbText(json_dumps(v)))
      [] v.t = "null" -> Ok(DbNull)
      [] v.t = "num" -> Ok(DbText(<<Doc(v)>>))
      [] v.t = "str" -> Ok(DbText(IF v.s = "" THEN <<>> ELSE <<Word(v.s)>>))
      [] v.t = "list" -> Raise("ProgrammingError")

\* mutant: the message_count argument is not written
Session_update_no_count(rows, session_id, kwargs) ==
    LET col == IF "extracted_knowledge" \in DOMAIN kwargs
               THEN knowledge_column(kwargs.extracted_knowledge)
               ELSE Ok(DbNull)
    IN IF ~col.ok THEN col
       ELSE IF session_id \notin DOMAIN rows THEN Ok(rows)
       ELSE Ok([rows EXCEPT ![session_id] =
                  [k \in DOMAIN @ |->
                      IF k \notin DOMAIN kwargs \/ k = "message_count" THEN @[k]
                      ELSE IF k = "extracted_knowledge" THEN col.val
                      ELSE kwargs[k]]])

\* Session.update(db, session_id, **kwargs): UPDATE ... WHERE id = ?
Session_update(rows, session_id, kwargs) ==
    LET col == IF "extracted_knowledge" \in DOMAIN kwargs
               THEN knowledge_column(kwargs.extracted_knowledge)
               ELSE Ok(DbNull)
    IN IF ~col.ok THEN col
       ELSE IF session_id \notin DOMAIN rows THEN Ok(rows)
       ELSE Ok([rows EXCEPT ![session_id] =
                  [k \in DOMAIN @ |->
                      IF k \notin DOMAIN kwargs THEN @[k]
                      ELSE IF k = "extracted_knowledge" THEN col.val
                      ELSE kwargs[k]]])

\* mutant: the counters are overwritten with this call's amounts
Session_update_cost_overwrite(rows, session_id, chars_synthesized, cost) ==
    IF session_id \notin DOMAIN rows THEN rows
    ELSE [rows EXCEPT ![session_id].total_chars_synthesized = chars_synthesized,
                      ![session_id].estimated_cost = cost]

\* Session.update_cost: both counters incremented in one UPDATE
Session_update_cost(rows, session_id, chars_synthesized, cost) ==
    IF session_id \notin DOMAIN rows THEN rows
    ELSE [rows EXCEPT ![session_id].total_chars_synthesized = @ + chars_synthesized,
                      ![session_id].estimated_cost = @ + cost]

\* mutant: the user's message is not saved
Message_create_skip_user(msgs, session_id, role, content) ==
    IF role = "user" THEN msgs
    ELSE Append(msgs, [session_id |-> session_id, role |-> role,
                       content |-> content])

\* Message.create
Message_create(msgs, session_id, role, content) ==
    Append(msgs, [session_id |-> session_id, role |-> role, content |-> content])

\* Message.get_by_session
Message_get_by_session(msgs, session_id) ==
    SelectSeq(msgs, LAMBDA m : m.session_id = session_id)

\* mutant: only the row of sessions is deleted
Session_delete_keep_messages(rows, msgs, session_id) ==
    [sessions |-> [k \in DOMAIN rows \ {session_id} |-> rows[k]],
     messages |-> msgs,
     ret |-> session_id \in DOMAIN rows]

\* mutant: the messages are deleted without the WHERE clause
Session_delete_every_message(rows, msgs, session_id) ==
    [sessions |-> [k \in DOMAIN rows \ {session_id} |-> rows[k]],
     messages |-> <<>>,
     ret |-> session_id \in DOMAIN rows]

\* Session.delete: the session's messages and its row go in one commit;
\* True if a row of sessions was deleted
Session_delete(rows, msgs, session_id) ==
    [sessions |-> [k \in DOMAIN rows \ {session_id} |-> rows[k]],
     messages |-> SelectSeq(msgs, LAMBDA m : m.session_id # session_id),
     ret |-> session_id \in DOMAIN rows]

(***************************************************************************)
(* Collaborators: the conversational model and speech synthesis.  Each     *)
(* call's outcome (a value or a provider error) is an input of the action. *)
(***************************************************************************)

\* TTSClient.calculate_cost
calculate_cost(char_count) == char_count * COST_PER_CHAR

\* TTSClient.synthesize on a successful provider call: (url, char_count)
synthesize(text, voice_preset) ==
    [audio_url |-> <<"/audio/", text, voice_preset>>, char_count |-> Len(text)]

\* ClaudeClient._format_knowledge: the sections that are not empty
_format_knowledge(knowledge) ==
    IF knowledge.t # "dict" THEN Raise("AttributeError")
    ELSE LET d == knowledge.d
             topics == Get(d, "topics_discussed", <<>>)
             insights == SubSeq(Get(d, "key_insights", <<>>), 1,
                                Min(5, Len(Get(d, "key_insights", <<>>))))
             people == Get(d, "people_mentioned", <<>>)
             questions == SubSeq(Get(d, "open_questions", <<>>), 1,
                                 Min(3, Len(Get(d, "open_questions", <<>>))))
             sections ==
                 (IF topics # <<>> THEN <<[section |-> "Topics", items |-> topics]>>
                  ELSE <<>>)
                 \o (IF insights # <<>>
                     THEN <<[section |-> "Key Insights", items |-> insights]>>
                     ELSE <<>>)
                 \o (IF people # <<>>
                     THEN <<[section |-> "People Mentioned", items |-> people]>>
                     ELSE <<>>)
                 \o (IF questions # <<>>
                     THEN <<[section |-> "Questions to Follow Up",
                             items |-> questions]>>
                     ELSE <<>>)
         IN IF \/ \E i \in 1..Len(insights) :
                     ~({"topic", "insight"} \subseteq DOMAIN insights[i])
               \/ \E i \in 1..Len(people) : "name" \notin DOMAIN people[i]
            THEN Raise("KeyError")
            ELSE IF sections # <<>> THEN Ok(sections)
            ELSE Ok(<<[section |-> "No knowledge extracted yet.", items |-> <<>>]>>)

\* ClaudeClient.send_with_context: the system prompt that is sent
full_system(system_prompt, extracted_knowledge) ==
    IF Truthy(extracted_knowledge)
    THEN LET summary == _format_knowledge(extracted_knowledge)
         IN IF summary.ok
            THEN Ok([prompt |-> system_prompt, knowledge |-> summary.val])
            ELSE summary
    ELSE Ok([prompt |-> system_prompt, knowledge |-> <<>>])

(***************************************************************************)
(* InterviewManager                                                        *)
(***************************************************************************)
\* mutant: the first 20 messages instead of the last
messages_to_extract_first(all_messages) ==
    LET n == Min(Len(all_messages), EXTRACTION_LOOKBACK)
    IN [i \in 1..n |-> strip_message(all_messages[i])]

\* messages[-20:] reduced to role and content
messages_to_extract(all_messages) ==
    LET n == Len(all_messages)
        first == IF n > EXTRACTION_LOOKBACK THEN n - EXTRACTION_LOOKBACK + 1 ELSE 1
    IN [i \in 1..(n - first + 1) |-> strip_message(all_messages[first + i - 1])]

\* mutant: the new record is stored as it is, without the merge
run_extraction_overwrite(rows, msgs, session_id, response) ==
    LET new == extract(response)
        updated == IF new.ok
                   THEN Session_update(rows, session_id,
                                       [extracted_knowledge |-> new.val])
                   ELSE new
    IN IF ~updated.ok
       THEN [ok |-> FALSE, err |-> updated.err, sessions |-> rows,
             called |-> TRUE, segment |-> <<>>]
       ELSE [ok |-> TRUE, err |-> "", sessions |-> updated.val, called |-> TRUE,
             segment |-> messages_to_extract(Message_get_by_session(msgs, session_id))]

\* _run_extraction; response is the outcome of the extraction model call.
\* The result says whether it raised (ok, err), the sessions table it
\* leaves, whether the model was called and with which segment.
_run_extraction(rows, msgs, session_id, response) ==
    LET session == Session_get_by_id(rows, session_id)
    IN IF ~session.ok
       THEN [ok |-> FALSE, err |-> session.err, sessions |-> rows,
             called |-> FALSE, segment |-> <<>>]
       ELSE IF session.val = PyNone
       THEN [ok |-> FALSE, err |-> "AttributeError", sessions |-> rows,
             called |-> FALSE, segment |-> <<>>]
       ELSE
       LET all_messages == Message_get_by_session(msgs, session_id)
           existing_knowledge == session.val.extracted_knowledge
           segment == messages_to_extract(all_messages)
           new_knowledge == extract(response)
           merged_knowledge ==
               IF new_knowledge.ok
               THEN merge_knowledge(existing_knowledge, new_knowledge.val)
               ELSE new_knowledge
           updated ==
               IF merged_knowledge.ok
               THEN Session_update(rows, session_id,
                                   [extracted_knowledge |-> merged_knowledge.val])
               ELSE merged_knowledge
       IN IF ~updated.ok
          THEN [ok |-> FALSE, err |-> updated.err, sessions |-> rows,
                called |-> TRUE, segment |-> segment]
          ELSE [ok |-> TRUE, err |-> "", sessions |-> updated.val,
                called |-> TRUE, segment |-> segment]

NoExtraction == [called |-> FALSE]
Extraction(response) == [called |-> TRUE, response |-> response]

\* what a call that raised leaves behind; invoked lists the provider calls
\* made (conversational model "claude", speech synthesis "tts"), in order
Fail(e, rows, msgs, extraction, invoked) ==
    [ok |-> FALSE, err |-> e, sessions |-> rows, messages |-> msgs,
     extraction |-> extraction, invoked |-> invoked]

\* _generate_greeting
GREETING == "Hello W1TEST, thank you for joining us today."

\* create_session; tts_ok: whether the synthesis provider call succeeds
create_session(rows, msgs, session_id, voice_preset, speech_rate, tts_ok) ==
    LET rows1 == Session_create(rows, session_id, voice_preset, speech_rate)
        msgs1 == Message_create(msgs, session_id, "assistant", GREETING)
    IN IF ~tts_ok THEN Fail("TTSError", rows1, msgs1, NoExtraction, <<"tts">>)
       ELSE
       LET audio == synthesize(GREETING, voice_preset)
           rows2 == Session_update_cost(rows1, session_id, audio.char_count,
                                        calculate_cost(audio.char_count))
       IN [ok |-> TRUE, err |-> "", sessions |-> rows2, messages |-> msgs1,
           extraction |-> NoExtraction, invoked |-> <<"tts">>,
           ret |-> [session_id |-> session_id, greeting |-> GREETING,
                    audio_url |-> audio.audio_url,
                    chars_synthesized |-> rows2[session_id].total_chars_synthesized]]

\* process_input; claude, tts_ok and extraction are the outcomes of the
\* three external calls (the last two are used only if they are reached)
process_input(rows, msgs, self, session_id, user_text, claude, tts_ok, extraction) ==
    LET session == Session_get_by_id(rows, session_id)
    IN IF ~session.ok THEN Fail(session.err, rows, msgs, NoExtraction, <<>>)
       ELSE IF session.val = PyNone
       THEN Fail("AttributeError", rows, msgs, NoExtraction, <<>>)
       ELSE
       LET voice_preset == session.val.voice_preset
           msgs2 == Message_create(msgs, session_id, "user", user_text)
           all_messages == Message_get_by_session(msgs2, session_id)
           message_count == Len(all_messages)
           extracted_knowledge == session.val.extracted_knowledge
           context_messages == build_context(self, all_messages)
           system == full_system("INTERVIEWER_SYSTEM_PROMPT", extracted_knowledge)
       IN IF ~system.ok THEN Fail(system.err, rows, msgs2, NoExtraction, <<>>)
          ELSE IF ~claude.ok
          THEN Fail(claude.err, rows, msgs2, NoExtraction, <<"claude">>)
          ELSE
          LET response_text == claude.val
              msgs3 == Message_create(msgs2, session_id, "assistant", response_text)
          IN IF ~tts_ok
             THEN Fail("TTSError", rows, msgs3, NoExtraction, <<"claude", "tts">>)
             ELSE
             LET audio == synthesize(response_text, voice_preset)
                 rows2 == Session_update_cost(rows, session_id, audio.char_count,
                                              calculate_cost(audio.char_count))
                 extraction_triggered == should_extract(self, message_count + 1)
                 ran == IF extraction_triggered
                        THEN _run_extraction(rows2, msgs3, session_id, extraction)
                        ELSE [ok |-> TRUE, err |-> "", sessions |-> rows2,
                              called |-> FALSE, segment |-> <<>>]
                 made == IF ran.called THEN Extraction(extraction) ELSE NoExtraction
             IN IF ~ran.ok
                THEN [segment |-> ran.segment] @@
                     Fail(ran.err, ran.sessions, msgs3, made, <<"claude", "tts">>)
                ELSE [ok |-> TRUE, err |-> "", sessions |-> ran.sessions,
                      messages |-> msgs3, extraction |-> made,
                      invoked |-> <<"claude", "tts">>,
                      ret |-> [response_text |-> response_text,
                               audio_url |-> audio.audio_url,
                               session_id |-> session_id,
                               message_count |-> (message_count + 2) \div 2,
                               extraction_triggered |-> extraction_triggered,
                               chars_this_response |-> audio.char_count,
                               total_chars |->
                                   rows2[session_id].total_chars_synthesized],
                      context |-> context_messages, system |-> system.val,
                      segment |-> ran.segment]

\* get_extracted_knowledge: `session.get("extracted_knowledge") or {...}`
get_extracted_knowledge(rows, msgs, session_id) ==
    LET session == Session_get_by_id(rows, session_id)
    IN IF ~session.ok THEN Fail(session.err, rows, msgs, NoExtraction, <<>>)
       ELSE IF session.val = PyNone
       THEN Fail("AttributeError", rows, msgs, NoExtraction, <<>>)
       ELSE [ok |-> TRUE, err |-> "", sessions |-> rows, messages |-> msgs,
             extraction |-> NoExtraction, invoked |-> <<>>,
             ret |-> IF Truthy(session.val.extracted_knowledge)
                     THEN session.val.extracted_knowledge
                     ELSE EmptyKnowledge]

\* mutant: the session is marked completed before the final extraction
end_session_mark_first(rows, msgs, session_id, extraction) ==
    LET all_messages == Message_get_by_session(msgs, session_id)
        updated == Session_update(rows, session_id,
                                  [status |-> "completed",
                                   message_count |-> Len(all_messages)])
        ran == _run_extraction(updated.val, msgs, session_id, extraction)
        made == IF ran.called THEN Extraction(extraction) ELSE NoExtraction
    IN IF ~ran.ok
       THEN [segment |-> ran.segment] @@ Fail(ran.err, ran.sessions, msgs, made, <<>>)
       ELSE [ok |-> TRUE, err |-> "", sessions |-> ran.sessions, messages |-> msgs,
             extraction |-> made, invoked |-> <<>>,
             ret |-> [session_id |-> session_id, status |-> "completed",
                      message_count |-> Len(all_messages) \div 2],
             segment |-> ran.segment]

\* end_session (the duration computed from the timestamps is left out)
end_session(rows, msgs, session_id, extraction) ==
    LET ran == _run_extraction(rows, msgs, session_id, extraction)
        made == IF ran.called THEN Extraction(extraction) ELSE NoExtraction
    IN IF ~ran.ok
       THEN [segment |-> ran.segment] @@ Fail(ran.err, ran.sessions, msgs, made, <<>>)
       ELSE
       LET all_messages == Message_get_by_session(msgs, session_id)
           updated == Session_update(ran.sessions, session_id,
                                     [status |-> "completed",
                                      message_count |-> Len(all_messages)])
       IN [ok |-> TRUE, err |-> "", sessions |-> updated.val, messages |-> msgs,
           extraction |-> made, invoked |-> <<>>,
           ret |-> [session_id |-> session_id, status |-> "completed",
                    message_count |-> Len(all_messages) \div 2],
           segment |-> ran.segment]

(***************************************************************************)
(* Specification Spec: sessions driven through the InterviewManager, every *)
(* external call succeeding or failing.                                    *)
(***************************************************************************)
SessionIds == {"s1"}
VoicePresets == {"premium_female"}
SpeechRates == {95}            \* hundredths
UserTexts == {"I first got on the air in 1978."}
ClaudeOutcomes == {Ok("Go on."), Raise("APIError")}

\* reply texts of the extraction model: a schema object, a partial object,
\* an empty object, other JSON values, an object embedded in prose, prose
\* without JSON, and braces around something that does not parse
ExtractionReplies ==
    {<<Doc(FullRecord)>>,
     <<Doc(JDict([topics_discussed |-> <<"ALE", "ale">>,
                  open_questions |-> <<"q1">>]))>>,
     <<Doc(JDict(<<>>))>>,
     <<Doc(JList(<<1>>))>>,
     <<Doc(JNum(5))>>,
     <<Doc(PyNone)>>,
     <<Word("Here is the JSON:"), Doc(JDict([topics_discussed |-> <<"x">>]))>>,
     <<Word("I could not find anything to extract.")>>}

ExtractionOutcomes == {Ok(text) : text \in ExtractionReplies} \cup {Raise("APIError")}

\* Config as the environment sets it for the running server
Envs == {[EXTRACTION_INTERVAL |-> x, MAX_CONTEXT_MESSAGES |-> MaxWindow] :
            x \in 1..MaxInterval}

Init ==
    /\ \E env \in Envs : cm = ContextManager(ConfigFromEnv(env), 0, 0)
    /\ call = NoCall
    /\ sessions = <<>>
    /\ messages = <<>>
    /\ ops = 0
    /\ PlumbingInit

\* the user messages of the segment an extraction model call was given
Handed(r) ==
    IF r.extraction.called /\ "segment" \in DOMAIN r
    THEN {r.segment[i].content :
             i \in {j \in 1..Len(r.segment) : r.segment[j].role = "user"}}
    ELSE {}

Returned(op, session_id, r) ==
    /\ call' = [op |-> op, session_id |-> session_id] @@
               [k \in DOMAIN r \ {"sessions", "messages"} |-> r[k]]
    /\ sessions' = r.sessions
    /\ messages' = r.messages
    /\ ops' = ops + 1
    /\ extracted' = extracted \cup Handed(r)
    /\ UNCHANGED <<cm, plumbing>>

CreateSession ==
    /\ ops < MaxOps
    /\ \E session_id \in SessionIds \ DOMAIN sessions,
          voice_preset \in VoicePresets, speech_rate \in SpeechRates,
          tts_ok \in BOOLEAN :
          Returned("create_session", session_id,
                   create_session(sessions, messages, session_id, voice_preset,
                                  speech_rate, tts_ok))

ProcessInput ==
    /\ ops < MaxOps
    /\ \E session_id \in SessionIds, user_text \in UserTexts,
          claude \in ClaudeOutcomes, tts_ok \in BOOLEAN,
          extraction \in ExtractionOutcomes :
          Returned("process_input", session_id,
                   process_input(sessions, messages, cm, session_id, user_text,
                                 claude, tts_ok, extraction))

EndSession ==
    /\ ops < MaxOps
    /\ \E session_id \in SessionIds, extraction \in ExtractionOutcomes :
          Returned("end_session", session_id,
                   end_session(sessions, messages, session_id, extraction))

\* GET /api/extraction/<session_id>
GetExtractedKnowledge ==
    /\ ops < MaxOps
    /\ \E session_id \in SessionIds :
          Returned("get_extracted_knowledge", session_id,
                   get_extracted_knowledge(sessions, messages, session_id))

Next == CreateSession \/ ProcessInput \/ EndSession \/ GetExtractedKnowledge

Spec == Init /\ [][Next]_vars

(***************************************************************************)
(* Specification SpecLong: one interview under the default configuration,  *)
(* long enough for the log to outgrow the extraction lookback.  Each turn  *)
(* carries its own text, so that every message of the log is told apart.   *)
(***************************************************************************)
LongExtractionOutcomes ==
    {Ok(<<Doc(FullRecord)>>),
     Ok(<<Doc(JDict([topics_discussed |-> <<"ALE", "ale">>,
                     open_questions |-> <<"q1">>]))>>)}

\* the interview is open: created and not yet ended
Open(session_id) ==
    session_id \in DOMAIN sessions /\ sessions[session_id].status = "active"

InitLong ==
    /\ cm = ContextManager(ConfigFromEnv(<<>>), 0, 0)
    /\ call = NoCall
    /\ sessions = <<>>
    /\ messages = <<>>
    /\ ops = 0
    /\ PlumbingInit

LongCreateSession ==
    /\ ops = 0
    /\ \E session_id \in SessionIds, voice_preset \in VoicePresets,
          speech_rate \in SpeechRates :
          Returned("create_session", session_id,
                   create_session(sessions, messages, session_id, voice_preset,
                                  speech_rate, TRUE))

LongProcessInput ==
    /\ ops < MaxLongOps
    /\ \E session_id \in SessionIds :
          /\ Open(session_id)
          /\ \E claude \in {Ok("r" \o ToString(ops)), Raise("APIError")},
                extraction \in LongExtractionOutcomes :
                Returned("process_input", session_id,
                         process_input(sessions, messages, cm, session_id,
                                       "u" \o ToString(ops), claude, TRUE,
                                       extraction))

LongEndSession ==
    /\ ops < MaxLongOps
    /\ \E session_id \in SessionIds :
          /\ Open(session_id)
          /\ \E extraction \in LongExtractionOutcomes :
                Returned("end_session", session_id,
                         end_session(sessions, messages, session_id, extraction))

NextLong == LongCreateSession \/ LongProcessInput \/ LongEndSession

SpecLong == InitLong /\ [][NextLong]_vars

(***************************************************************************)
(* Specification SpecDrop: one interview under the default configuration,  *)
(* long enough for the log to outgrow the context window, in which a turn  *)
(* may fail at the conversational model or at speech synthesis.  Each user *)
(* message carries its own text.                                           *)
(***************************************************************************)

\* the turns that raised so far: every call but create_session is a turn,
\* and only a turn that got past synthesis added its reply to the counter
FailedTurns(session_id) ==
    (ops - 1) - ((sessions[session_id].total_chars_synthesized - Len(GREETING))
                    \div Len("Go on."))

DropProcessInput ==
    /\ ops < MaxDropOps
    /\ \E session_id \in SessionIds :
          /\ Open(session_id)
          /\ \E claude \in ClaudeOutcomes, tts_ok \in BOOLEAN :
                /\ (~claude.ok \/ ~tts_ok) => FailedTurns(session_id) < MaxFailures
                \* synthesis is not reached when the model call fails
                /\ claude.ok \/ tts_ok
                /\ Returned("process_input", session_id,
                            process_input(sessions, messages, cm, session_id,
                                          "u" \o ToString(ops), claude, tts_ok,
                                          Ok(<<Doc(FullRecord)>>)))

NextDrop == LongCreateSession \/ DropProcessInput

SpecDrop == InitLong /\ [][NextDrop]_vars

(***************************************************************************)
(* Specification SpecSteps: the requests of two sessions served by two     *)
(* threads of the server, one statement at a time.  A step is one database *)
(* statement with its commit, or one call to an external provider; the     *)
(* threads share the sessions and messages tables and the ContextManager.  *)
(***************************************************************************)
\* the session whose requests a thread serves
SessionOf(t) == IF t = "t1" THEN "s1" ELSE "s2"

\* the outcomes of the provider call a statement makes, if it makes one
StepOutcomes(pc) ==
    CASE pc = "claude" -> ClaudeOutcomes
      [] pc = "tts" -> {Ok("audio"), Raise("TTSError")}
      [] pc \in {"extract", "final_extraction"} ->
            {Ok(<<Doc(FullRecord)>>), Raise("APIError")}
      [] OTHER -> {Ok("")}

\* the call returns (err = "") or raises err; its locals are gone
Return(th, err) ==
    [th EXCEPT !.pc = "done", !.ok = (err = ""), !.err = err, !.loc = <<>>]

\* the call goes on at statement pc with the new locals loc
At(th, pc, loc) == [th EXCEPT !.pc = pc, !.loc = loc @@ @]

\* the call has invoked a provider
Invoking(th, provider) == [th EXCEPT !.invoked = Append(@, provider)]

\* create_session, one statement per step
create_session_step(rows, msgs, th, outcome) ==
    LET session_id == th.session_id
    IN CASE th.pc = "insert_session" ->
              [sessions |-> Session_create(rows, session_id, "premium_female", 95),
               messages |-> msgs, th |-> At(th, "save_greeting", <<>>)]
         [] th.pc = "save_greeting" ->
              [sessions |-> rows,
               messages |-> Message_create(msgs, session_id, "assistant", GREETING),
               th |-> At(th, "tts", <<>>)]
         [] th.pc = "tts" ->
              [sessions |-> rows, messages |-> msgs,
               th |-> IF outcome.ok
                      THEN At(Invoking(th, "tts"), "update_cost",
                              [audio |-> synthesize(GREETING, "premium_female")])
                      ELSE Return(Invoking(th, "tts"), outcome.err)]
         [] th.pc = "update_cost" ->
              [sessions |-> Session_update_cost(rows, session_id,
                                th.loc.audio.char_count,
                                calculate_cost(th.loc.audio.char_count)),
               messages |-> msgs, th |-> Return(th, "")]

\* process_input, one statement per step
process_input_step(rows, msgs, self, th, outcome) ==
    LET session_id == th.session_id
        same(t) == [sessions |-> rows, messages |-> msgs, th |-> t]
    IN CASE th.pc = "get_session" ->
              LET session == Session_get_by_id(rows, session_id)
              IN IF ~session.ok THEN same(Return(th, session.err))
                 ELSE IF session.val = PyNone
                 THEN same(Return(th, "AttributeError"))
                 ELSE same(At(th, "save_user", [session |-> session.val]))
         [] th.pc = "save_user" ->
              [sessions |-> rows,
               messages |-> Message_create(msgs, session_id, "user", th.user_text),
               th |-> At(th, "claude", <<>>)]
         [] th.pc = "claude" ->
              LET all_messages == Message_get_by_session(msgs, session_id)
                  context_messages == build_context(self, all_messages)
                  system == full_system("INTERVIEWER_SYSTEM_PROMPT",
                                        th.loc.session.extracted_knowledge)
              IN IF ~system.ok THEN same(Return(th, system.err))
                 ELSE IF ~outcome.ok
                 THEN same(Return(Invoking(th, "claude"), outcome.err))
                 ELSE same(At(Invoking(th, "claude"), "save_assistant",
                              [message_count |-> Len(all_messages),
                               context |-> context_messages,
                               response_text |-> outcome.val]))
         [] th.pc = "save_assistant" ->
              [sessions |-> rows,
               messages |-> Message_create(msgs, session_id, "assistant",
                                           th.loc.response_text),
               th |-> At(th, "tts", <<>>)]
         [] th.pc = "tts" ->
              IF ~outcome.ok THEN same(Return(Invoking(th, "tts"), outcome.err))
              ELSE same(At(Invoking(th, "tts"), "update_cost",
                           [audio |-> synthesize(th.loc.response_text,
                                                 th.loc.session.voice_preset)]))
         [] th.pc = "update_cost" ->
              [sessions |-> Session_update_cost(rows, session_id,
                                th.loc.audio.char_count,
                                calculate_cost(th.loc.audio.char_count)),
               messages |-> msgs, th |-> At(th, "extract", <<>>)]
         [] th.pc = "extract" ->
              IF ~should_extract(self, th.loc.message_count + 1)
              THEN same(Return(th, ""))
              ELSE LET ran == _run_extraction(rows, msgs, session_id, outcome)
                       th1 == IF ran.called THEN Invoking(th, "extractor") ELSE th
                   IN [sessions |-> ran.sessions, messages |-> msgs,
                       th |-> IF ran.ok THEN Return(th1, "")
                              ELSE Return(th1, ran.err)]

\* end_session, one statement per step
end_session_step(rows, msgs, th, outcome) ==
    LET session_id == th.session_id
    IN CASE th.pc = "final_extraction" ->
              LET ran == _run_extraction(rows, msgs, session_id, outcome)
                  th1 == IF ran.called THEN Invoking(th, "extractor") ELSE th
              IN [sessions |-> ran.sessions, messages |-> msgs,
                  th |-> IF ran.ok THEN At(th1, "mark_completed", <<>>)
                         ELSE Return(th1, ran.err)]
         [] th.pc = "mark_completed" ->
              LET all_messages == Message_get_by_session(msgs, session_id)
              IN [sessions |-> Session_update(rows, session_id,
                                   [status |-> "completed",
                                    message_count |-> Len(all_messages)]).val,
                  messages |-> msgs, th |-> Return(th, "")]

\* DELETE /api/sessions/<session_id>: 404 if no row was deleted
delete_session_step(rows, msgs, th) ==
    LET deleted == Session_delete(rows, msgs, th.session_id)
    IN [sessions |-> deleted.sessions, messages |-> deleted.messages,
        th |-> IF deleted.ret THEN Return(th, "") ELSE Return(th, "404")]

InitSteps ==
    /\ \E x \in 1..2 :
          cm = ContextManager(ConfigFromEnv([EXTRACTION_INTERVAL |-> x,
                                             MAX_CONTEXT_MESSAGES |-> MaxWindow]),
                              0, 0)
    /\ call = NoCall
    /\ sessions = <<>>
    /\ messages = <<>>
    /\ ops = 0
    /\ PlumbingInit

\* a request arrives and a free thread takes it
StartCall ==
    /\ ops < MaxStepCalls
    /\ \E t \in Threads, user_text \in UserTexts,
          first \in {[op |-> "create_session", pc |-> "insert_session"],
                     [op |-> "process_input", pc |-> "get_session"],
                     [op |-> "end_session", pc |-> "final_extraction"],
                     [op |-> "delete_session", pc |-> "delete"]} :
          /\ threads[t].pc = "done"
          /\ first.op = "create_session" <=> SessionOf(t) \notin DOMAIN sessions
          /\ threads' = [threads EXCEPT ![t] =
                            [pc |-> first.pc, op |-> first.op,
                             session_id |-> SessionOf(t),
                             user_text |-> user_text, loc |-> <<>>,
                             invoked |-> <<>>, ok |-> FALSE, err |-> ""]]
    /\ ops' = ops + 1
    /\ UNCHANGED <<cm, call, sessions, messages, tts, tokens, cookies, extracted, revoked>>

\* thread t has run its next statement and r is what that left
Stepped(t, r) ==
    /\ sessions' = r.sessions
    /\ messages' = r.messages
    /\ threads' = [threads EXCEPT ![t] = r.th]
    /\ call' = IF r.th.pc = "done"
               THEN [op |-> r.th.op, session_id |-> r.th.session_id,
                     ok |-> r.th.ok, err |-> r.th.err]
               ELSE call
    /\ UNCHANGED <<cm, ops, tts, tokens, cookies, extracted, revoked>>

StepCreate ==
    \E t \in Threads :
       /\ threads[t].op = "create_session" /\ threads[t].pc # "done"
       /\ \E outcome \in StepOutcomes(threads[t].pc) :
             Stepped(t, create_session_step(sessions, messages, threads[t], outcome))

StepTurn ==
    \E t \in Threads :
       /\ threads[t].op = "process_input" /\ threads[t].pc # "done"
       /\ \E outcome \in StepOutcomes(threads[t].pc) :
             Stepped(t, process_input_step(sessions, messages, cm, threads[t],
                                           outcome))

StepEnd ==
    \E t \in Threads :
       /\ threads[t].op = "end_session" /\ threads[t].pc # "done"
       /\ \E outcome \in StepOutcomes(threads[t].pc) :
             Stepped(t, end_session_step(sessions, messages, threads[t], outcome))

StepDelete ==
    \E t \in Threads :
       /\ threads[t].op = "delete_session" /\ threads[t].pc # "done"
       /\ Stepped(t, delete_session_step(sessions, messages, threads[t]))

NextSteps == StartCall \/ StepCreate \/ StepTurn \/ StepEnd \/ StepDelete

SpecSteps == InitSteps /\ [][NextSteps]_vars

(***************************************************************************)
(* Specification SpecCtx: the ContextManager's two pure methods applied to *)
(* bounded inputs.                                                         *)
(***************************************************************************)

\* rows as Message.get_by_session returns them: id, role, content
Histories ==
    UNION {[1..n -> [role : Roles, content : Contents]] : n \in 0..MaxHist}

WithIds(h) == [i \in 1..Len(h) |-> [id |-> i, role |-> h[i].role,
                                    content |-> h[i].content]]

InitCtx ==
    /\ \E m \in 0..MaxWindow, x \in 0..MaxInterval :
          cm = ContextManager(ConfigFromEnv(<<>>), m, x)
    /\ call = NoCall
    /\ sessions = <<>>
    /\ messages = <<>>
    /\ ops = 0
    /\ PlumbingInit

CallShouldExtract ==
    /\ \E n \in 0..MaxCount :
          call' = [op |-> "should_extract", self |-> cm, message_count |-> n,
                   ret |-> should_extract(cm, n)]
    /\ UNCHANGED <<cm, sessions, messages, ops, plumbing, extracted>>

CallBuildContext ==
    /\ \E h \in Histories :
          call' = [op |-> "build_context", self |-> cm,
                   all_messages |-> WithIds(h),
                   ret |-> build_context(cm, WithIds(h))]
    /\ UNCHANGED <<cm, sessions, messages, ops, plumbing, extracted>>

NextCtx == CallShouldExtract \/ CallBuildContext

SpecCtx == InitCtx /\ [][NextCtx]_vars

(***************************************************************************)
(* Specification SpecMerge: the KnowledgeExtractor's merge functions       *)
(* applied to bounded inputs, and chained the way the stored record is     *)
(* merged extraction after extraction.                                     *)
(***************************************************************************)
TopicStrings == {"ALE", "ale", "MS-DMT", "MARS-ALE"}

StringLists == UNION {[1..n -> TopicStrings] : n \in 0..MaxList}

\* records as the extraction model may reply them: any subset of the seven
\* categories, lists with or without case-insensitive duplicates
KnowledgeRecords ==
    {JDict(<<>>), EmptyKnowledge, FullRecord,
     JDict([topics_discussed |-> <<"ALE">>]),
     JDict([topics_discussed |-> <<"ale", "MS-DMT">>]),
     JDict([topics_discussed |-> <<"ALE", "ale">>, open_questions |-> <<"q1">>]),
     JDict([key_insights |-> <<Insight("ALE", "i1")>>]),
     JDict([key_insights |-> <<Insight("ale", "i2"), Insight("ALE", "i3")>>]),
     JDict([key_insights |-> <<[insight |-> "i4"]>>]),
     JDict([people_mentioned |-> <<Person("bob", "N0CALL")>>]),
     JDict([people_mentioned |-> <<Person("Bob", "K1ABC"), Person("bob", "")>>]),
     JDict([technical_details |-> <<Detail("ALE", "d0")>>]),
     JDict([lessons_learned |-> <<"lesson", "Lesson">>]),
     JDict([open_questions |-> <<"q2">>, follow_up_topics |-> <<"f2">>]),
     JDict([follow_up_topics |-> <<"f1">>])}

InitMerge ==
    /\ cm = ContextManager(ConfigFromEnv(<<>>), 0, 0)
    /\ call = NoCall
    /\ sessions = <<>>
    /\ messages = <<>>
    /\ ops = 0
    /\ PlumbingInit

\* one merge of a new record into an existing one (or into none)
CallMergeKnowledge ==
    /\ ops = 0
    /\ \E existing \in KnowledgeRecords \cup {PyNone}, new \in KnowledgeRecords :
          call' = [op |-> "merge_knowledge", existing |-> existing, new |-> new,
                   ret |-> merge_knowledge(existing, new), again |-> FALSE]
    /\ ops' = 1
    /\ UNCHANGED <<cm, sessions, messages, plumbing, extracted>>

\* the same new record merged once more into the result
CallMergeAgain ==
    /\ call.op = "merge_knowledge" /\ call.ret.ok /\ ~call.again
    /\ ops < MaxMerges
    /\ call' = [op |-> "merge_knowledge", existing |-> call.ret.val,
                new |-> call.new,
                ret |-> merge_knowledge(call.ret.val, call.new), again |-> TRUE]
    /\ ops' = ops + 1
    /\ UNCHANGED <<cm, sessions, messages, plumbing, extracted>>

\* another new record merged into the result
CallMergeNext ==
    /\ call.op = "merge_knowledge" /\ call.ret.ok
    /\ ops < MaxMerges
    /\ \E new \in KnowledgeRecords :
          call' = [op |-> "merge_knowledge", existing |-> call.ret.val,
                   new |-> new,
                   ret |-> merge_knowledge(call.ret.val, new), again |-> FALSE]
    /\ ops' = ops + 1
    /\ UNCHANGED <<cm, sessions, messages, plumbing, extracted>>

CallMergeUnique ==
    /\ ops = 0
    /\ \E list1 \in StringLists, list2 \in StringLists :
          call' = [op |-> "_merge_unique", list1 |-> list1, list2 |-> list2,
                   ret |-> _merge_unique(list1, list2)]
    /\ ops' = 1
    /\ UNCHANGED <<cm, sessions, messages, plumbing, extracted>>

\* insights and people as the extraction model may reply them: topics and
\* names in several casings, an item without its key field
InsightItems == {Insight("ALE", "i1"), Insight("ale", "i2"),
                 Insight("MS-DMT", "i3"), [insight |-> "i4"]}
PersonItems == {Person("Bob", "K1ABC"), Person("bob", ""),
                Person("ALE", "N0CALL"), [callsign |-> "W1AW"]}
InsightLists == UNION {[1..n -> InsightItems] : n \in 0..MaxList}
PersonLists == UNION {[1..n -> PersonItems] : n \in 0..MaxList}

CallMergeInsights ==
    /\ ops = 0
    /\ \E existing \in InsightLists, new \in InsightLists :
          call' = [op |-> "_merge_insights", key |-> "topic",
                   existing |-> existing, new |-> new,
                   ret |-> _merge_insights(existing, new)]
    /\ ops' = 1
    /\ UNCHANGED <<cm, sessions, messages, plumbing, extracted>>

CallMergePeople ==
    /\ ops = 0
    /\ \E existing \in PersonLists, new \in PersonLists :
          call' = [op |-> "_merge_people", key |-> "name",
                   existing |-> existing, new |-> new,
                   ret |-> _merge_people(existing, new)]
    /\ ops' = 1
    /\ UNCHANGED <<cm, sessions, messages, plumbing, extracted>>

NextMerge ==
    \/ CallMergeKnowledge \/ CallMergeAgain \/ CallMergeNext
    \/ CallMergeUnique \/ CallMergeInsights \/ CallMergePeople

SpecMerge == InitMerge /\ [][NextMerge]_vars

(***************************************************************************)
(* TTSClient, and Specification SpecTts: callers asking for the audio of   *)
(* a text, through a client they construct or through the client the       *)
(* InterviewManager constructs when none was handed to it.                 *)
(***************************************************************************)

\* the attributes class Config defines
ConfigNames ==
    {"ANTHROPIC_API_KEY", "GOOGLE_API_KEY", "SECRET_KEY", "FLASK_ENV", "DEBUG",
     "HOST", "PORT", "REQUIRE_AUTH", "TOKENS_FILE", "CLAUDE_MODEL",
     "CLAUDE_MAX_TOKENS", "MAX_CONTEXT_MESSAGES", "EXTRACTION_INTERVAL",
     "TTS_LANGUAGE_CODE", "VOICE_PRESETS", "DEFAULT_VOICE",
     "DEFAULT_SPEECH_RATE", "BASE_DIR", "DATA_DIR", "DATABASE_PATH",
     "AUDIO_CACHE_DIR", "EXPORTS_DIR"}

\* Config.VOICE_PRESETS: the fields the clients read; cost_per_char in
\* millionths of a dollar
VOICE_PRESETS ==
    [budget_female |-> [name |-> "en-US-Wavenet-F", cost_per_char |-> 4,
                        supports_rate |-> TRUE],
     budget_male |-> [name |-> "en-US-Wavenet-D", cost_per_char |-> 4,
                      supports_rate |-> TRUE],
     standard_female |-> [name |-> "en-US-Neural2-F", cost_per_char |-> 16,
                          supports_rate |-> TRUE],
     standard_male |-> [name |-> "en-US-Neural2-D", cost_per_char |-> 16,
                        supports_rate |-> TRUE],
     premium_female |-> [name |-> "en-US-Chirp3-HD-Kore",
                         cost_per_char |-> COST_PER_CHAR,
                         supports_rate |-> FALSE],
     premium_male |-> [name |-> "en-US-Chirp3-HD-Charon",
                       cost_per_char |-> COST_PER_CHAR,
                       supports_rate |-> FALSE]]

\* the keyword parameters of TTSClient.__init__
TTSClientParams == {"voice_quality", "language_code", "speaking_rate", "cache_dir"}

\* `arg or Config.NAME`: the argument when it is given and true, else the
\* Config attribute, whose absence is an AttributeError
OrConfig(kwargs, arg, name) ==
    IF arg \in DOMAIN kwargs THEN Ok(kwargs[arg])
    ELSE IF name \in ConfigNames THEN Ok(name)
    ELSE Raise("AttributeError")

\* TTSClient.__init__(**kwargs): the instance, or the exception raised.  An
\* unknown keyword is a TypeError; the default of VOICE_PRESETS.get is
\* evaluated before the lookup.
TTSClient_init(kwargs) ==
    IF ~(DOMAIN kwargs \subseteq TTSClientParams) THEN Raise("TypeError")
    ELSE
    LET voice_quality == OrConfig(kwargs, "voice_quality", "DEFAULT_VOICE_QUALITY")
        language_code == OrConfig(kwargs, "language_code", "TTS_LANGUAGE_CODE")
        speaking_rate == OrConfig(kwargs, "speaking_rate", "TTS_SPEAKING_RATE")
        cache_dir == OrConfig(kwargs, "cache_dir", "AUDIO_CACHE_DIR")
    IN IF ~voice_quality.ok THEN voice_quality
       ELSE IF ~language_code.ok THEN language_code
       ELSE IF ~speaking_rate.ok THEN speaking_rate
       ELSE IF ~cache_dir.ok THEN cache_dir
       ELSE IF "natural" \notin DOMAIN VOICE_PRESETS THEN Raise("KeyError")
       ELSE
       LET preset == Get(VOICE_PRESETS, voice_quality.val, VOICE_PRESETS["natural"])
       IN IF "voice_name" \notin DOMAIN preset THEN Raise("KeyError")
          ELSE Ok([voice_quality |-> voice_quality.val,
                   language_code |-> language_code.val,
                   speaking_rate |-> speaking_rate.val,
                   cache_dir |-> cache_dir.val,
                   voice_name |-> preset["voice_name"],
                   cost_per_char |-> preset["cost_per_char"]])

\* InterviewManager._get_tts_client: the client handed to the constructor,
\* or one constructed for the voice preset and speech rate
_get_tts_client(_tts_client, voice_preset, speech_rate) ==
    IF _tts_client # PyNone THEN Ok(_tts_client)
    ELSE TTSClient_init([voice_preset |-> voice_preset,
                         speech_rate |-> speech_rate])

\* the cache key: md5 of "{text}:{voice_name}"
cache_key(self, text) == <<text, self.voice_name>>

\* TTSClient.synthesize(text) on the cache directory and provider of state
\* t: the outcome and the state it leaves
TTSClient_synthesize(self, t, text) ==
    LET key == cache_key(self, text)
        url == <<"/audio/", key, ".mp3">>
    IN IF key \in DOMAIN t.files
       THEN [ok |-> TRUE, err |-> "", url |-> url, char_count |-> Len(text),
             tts |-> t]
       ELSE IF "speech_rate" \notin DOMAIN self
       THEN [ok |-> FALSE, err |-> "AttributeError", url |-> <<>>,
             char_count |-> Len(text), tts |-> t]
       ELSE [ok |-> TRUE, err |-> "", url |-> url, char_count |-> Len(text),
             tts |-> [t EXCEPT !.files = (key :> "audio") @@ @,
                               !.provider_calls = @ + 1]]

Callers == {"c1", "c2"}
TtsTexts == {"Test text", "Hello world"}
TtsVoices == {"premium_female", "standard_male"}
TtsRates == {95, 100}          \* hundredths

\* keyword arguments with which a caller constructs its own client
TtsKwargs ==
    {[cache_dir |-> "tmpdir"]}
    \cup {[voice_quality |-> v, speaking_rate |-> r, cache_dir |-> "tmpdir"] :
            v \in TtsVoices, r \in TtsRates}

\* a request ends: the outcome is recorded with what the caller asked for
\* and with the state of the artifact at the moment of return
TtsReturned(caller, voice, text, client) ==
    LET r == IF client.ok THEN TTSClient_synthesize(client.val, tts, text)
             ELSE [ok |-> FALSE, err |-> client.err, url |-> <<>>,
                   char_count |-> Len(text), tts |-> tts]
        key == IF client.ok THEN cache_key(client.val, text) ELSE <<>>
        request == [caller |-> caller, voice |-> voice, text |-> text,
                    ok |-> r.ok, err |-> r.err, url |-> r.url,
                    artifact |-> IF r.ok /\ key \in DOMAIN r.tts.files
                                 THEN r.tts.files[key] ELSE "missing",
                    provider_calls |-> r.tts.provider_calls - tts.provider_calls]
    IN /\ tts' = [r.tts EXCEPT !.requests = Append(tts.requests, request)]
       /\ call' = [op |-> "synthesize"] @@ request
       /\ ops' = ops + 1
       /\ UNCHANGED <<cm, sessions, messages, tokens, cookies, threads, extracted, revoked>>

InitTts ==
    /\ cm = ContextManager(ConfigFromEnv(<<>>), 0, 0)
    /\ call = NoCall
    /\ sessions = <<>>
    /\ messages = <<>>
    /\ ops = 0
    /\ PlumbingInit

\* client = TTSClient(...); client.synthesize(text)
SynthesizeDirect ==
    /\ ops < MaxTtsCalls
    /\ \E caller \in Callers, kwargs \in TtsKwargs, text \in TtsTexts :
          TtsReturned(caller,
                      [voice |-> Get(kwargs, "voice_quality", "default"),
                       rate |-> Get(kwargs, "speaking_rate", 0)],
                      text, TTSClient_init(kwargs))

\* tts = self._get_tts_client(voice_preset, speech_rate);
\* tts.synthesize(text), in an InterviewManager constructed without a client
SynthesizeViaManager ==
    /\ ops < MaxTtsCalls
    /\ \E caller \in Callers, voice_preset \in TtsVoices,
          speech_rate \in TtsRates, text \in TtsTexts :
          TtsReturned(caller, [voice |-> voice_preset, rate |-> speech_rate],
                      text, _get_tts_client(PyNone, voice_preset, speech_rate))

NextTts == SynthesizeDirect \/ SynthesizeViaManager

SpecTts == InitTts /\ [][NextTts]_vars

\* C16: a synthesize request whose text and voice are those of an earlier
\* request returns the artifact reference the earlier one returned and does
\* not invoke the synthesis provider, so the provider is invoked at most
\* once per (text, voice) pair.
C16_RepeatUsesCache ==
    \A i, j \in 1..Len(tts.requests) :
        LET first == tts.requests[i]
            again == tts.requests[j]
        IN (i < j /\ first.text = again.text /\ first.voice = again.voice) =>
              /\ first.ok /\ again.ok
              /\ again.url = first.url
              /\ again.provider_calls = 0

\* C17: concurrent synthesize requests with the same text and voice all
\* return the same artifact reference, and whenever a request returns, the
\* artifact it refers to exists and holds the complete audio.
C17_ConcurrentSameArtifact ==
    \A i, j \in 1..Len(tts.requests) :
        LET one == tts.requests[i]
            other == tts.requests[j]
        IN (one.caller # other.caller /\ one.text = other.text
              /\ one.voice = other.voice) =>
              /\ one.ok /\ other.ok
              /\ one.url = other.url
              /\ one.artifact = "audio" /\ other.artifact = "audio"

(***************************************************************************)
(* Access control, and Specification SpecAuth: the operator's token        *)
(* commands and the browsers' requests.  A token is a sequence of          *)
(* characters; a browser's cookie is the Flask session it carries.         *)
(***************************************************************************)
REQUIRE_AUTH == TRUE      \* Config.REQUIRE_AUTH, default 'true'

TokenStrings == {<<"a", "x">>, <<"a", "y">>, <<"b", "x">>}
UserNames == {"Bob"}
Browsers == {"b1", "b2"}

\* str.startswith
startswith(string, prefix) ==
    Len(prefix) <= Len(string) /\ SubSeq(string, 1, Len(prefix)) = prefix

TokenPrefixes ==
    {SubSeq(t, 1, n) : t \in TokenStrings, n \in 1..2}

\* token_manager.add_token, with the token generate_token drew
add_token(data, token, name) ==
    (token :> [name |-> name, active |-> TRUE, last_used |-> FALSE,
               sessions_count |-> 0, revoked |-> FALSE]) @@ data

\* token_manager.validate_token: the user info or None, and the file it
\* leaves (last_used is kept as set / not set)
validate_token(data, token) ==
    IF token \in DOMAIN data /\ data[token].active
    THEN [info |-> Ok([data[token] EXCEPT !.last_used = TRUE]),
          data |-> [data EXCEPT ![token].last_used = TRUE]]
    ELSE [info |-> Ok(PyNone), data |-> data]

\* revoke_token
revoke_token(data, token) ==
    IF token \in DOMAIN data
    THEN [ret |-> TRUE,
          data |-> [data EXCEPT ![token].active = FALSE, ![token].revoked = TRUE]]
    ELSE [ret |-> FALSE, data |-> data]

\* manage_tokens.cmd_revoke: the token is named by a prefix, which must
\* match exactly one token
cmd_revoke(data, prefix) ==
    LET matches == {t \in DOMAIN data : startswith(t, prefix)}
    IN IF Cardinality(matches) # 1
       THEN [ret |-> FALSE, data |-> data, token |-> <<>>]
       ELSE LET token == CHOOSE t \in matches : TRUE
            IN [token |-> token] @@ revoke_token(data, token)

\* the decorator require_auth: the status with which a guarded endpoint
\* answers a request that carries the cookie session
require_auth(session) ==
    IF ~REQUIRE_AUTH THEN 200
    ELSE IF ~Get(session, "authenticated", FALSE) THEN 401
    ELSE 200

\* the cookie a browser sends, empty when it holds none
CookieOf(browser) == IF browser \in DOMAIN cookies THEN cookies[browser] ELSE <<>>

InitAuth ==
    /\ cm = ContextManager(ConfigFromEnv(<<>>), 0, 0)
    /\ call = NoCall
    /\ sessions = <<>>
    /\ messages = <<>>
    /\ ops = 0
    /\ PlumbingInit

AuthDone == /\ ops' = ops + 1
            /\ UNCHANGED <<cm, sessions, messages, tts, threads, extracted, revoked>>

\* manage_tokens.py add
CmdAdd ==
    /\ ops < MaxAuthOps
    /\ \E name \in UserNames, token \in TokenStrings \ DOMAIN tokens :
          /\ tokens' = add_token(tokens, token, name)
          /\ call' = [op |-> "add", token |-> token]
    /\ UNCHANGED cookies
    /\ AuthDone

\* manage_tokens.py revoke
CmdRevoke ==
    /\ ops < MaxAuthOps
    /\ \E prefix \in TokenPrefixes :
          LET r == cmd_revoke(tokens, prefix)
          IN /\ tokens' = r.data
             /\ call' = [op |-> "revoke", prefix |-> prefix, token |-> r.token,
                         ret |-> r.ret]
    /\ UNCHANGED cookies
    /\ AuthDone

\* POST /api/auth
Authenticate ==
    /\ ops < MaxAuthOps
    /\ \E browser \in Browsers, token \in TokenStrings :
          LET v == validate_token(tokens, token)
              user_info == v.info.val
          IN /\ tokens' = v.data
             /\ IF user_info # PyNone
                THEN /\ cookies' = (browser :>
                                      ([authenticated |-> TRUE, token |-> token,
                                        user_name |-> user_info.name]
                                       @@ CookieOf(browser))) @@ cookies
                     /\ call' = [op |-> "authenticate", browser |-> browser,
                                 token |-> token, status |-> 200]
                ELSE /\ cookies' = cookies
                     /\ call' = [op |-> "authenticate", browser |-> browser,
                                 token |-> token, status |-> 401]
    /\ AuthDone

\* a request to an endpoint behind require_auth, e.g. POST /api/interview
GuardedRequest ==
    /\ ops < MaxAuthOps
    /\ \E browser \in Browsers :
          call' = [op |-> "request", browser |-> browser,
                   status |-> require_auth(CookieOf(browser))]
    /\ UNCHANGED <<tokens, cookies>>
    /\ AuthDone

\* POST /api/logout: session.clear()
Logout ==
    /\ ops < MaxAuthOps
    /\ \E browser \in DOMAIN cookies :
          /\ cookies' = [b \in DOMAIN cookies \ {browser} |-> cookies[b]]
          /\ call' = [op |-> "logout", browser |-> browser]
    /\ UNCHANGED tokens
    /\ AuthDone

NextAuth == CmdAdd \/ CmdRevoke \/ Authenticate \/ GuardedRequest \/ Logout

SpecAuth == InitAuth /\ [][NextAuth]_vars

(***************************************************************************)
(* Specification SpecTok: the token functions called concurrently, by the  *)
(* server's request threads and by the operator's command.  Each call      *)
(* loads the whole tokens file, changes its copy and writes the whole copy *)
(* back; the load and the write are separate steps.                        *)
(***************************************************************************)

\* token_manager.increment_session_count: whether it saves, and the copy
increment_session_count(data, token) ==
    IF token \in DOMAIN data
    THEN [saves |-> TRUE, data |-> [data EXCEPT ![token].sessions_count = @ + 1]]
    ELSE [saves |-> FALSE, data |-> data]

\* data = _load_tokens(), and the change the function makes to its copy; a
\* function that does not save returns at once
TokLoad ==
    /\ ops < MaxTokCalls
    /\ \E t \in Threads,
          token \in {<<"k", ToString(n)>> : n \in 0..(MaxTokCalls - 1)},
          op \in {"add_token", "validate_token", "increment_session_count",
                  "revoke_token"} :
          LET r == CASE op = "add_token" ->
                          [saves |-> TRUE, ret |-> token,
                           data |-> add_token(tokens, token, "Bob")]
                     [] op = "validate_token" ->
                          LET v == validate_token(tokens, token)
                          IN [saves |-> v.info.val # PyNone, ret |-> v.info.val,
                              data |-> v.data]
                     [] op = "increment_session_count" ->
                          [ret |-> PyNone] @@ increment_session_count(tokens, token)
                     [] op = "revoke_token" ->
                          LET v == revoke_token(tokens, token)
                          IN [saves |-> v.ret, ret |-> v.ret, data |-> v.data]
              th == [pc |-> IF r.saves THEN "save" ELSE "done", op |-> op,
                     token |-> token, data |-> r.data, ret |-> r.ret,
                     after_revoke |-> token \in revoked]
          IN /\ threads[t].pc = "done"
             \* generate_token: a token no other call has drawn
             /\ op = "add_token" => token = <<"k", ToString(ops)>>
             /\ threads' = [threads EXCEPT ![t] = th]
             /\ call' = IF r.saves THEN call
                        ELSE [k \in {"op", "token", "ret", "after_revoke"} |-> th[k]]
    /\ ops' = ops + 1
    /\ UNCHANGED <<cm, sessions, messages, tts, tokens, cookies, extracted,
                   revoked>>

\* _save_tokens(data): the thread's copy replaces the file, and the
\* function returns
TokSave ==
    /\ \E t \in Threads :
          LET th == threads[t]
          IN /\ th.pc = "save"
             /\ tokens' = th.data
             /\ threads' = [threads EXCEPT ![t].pc = "done"]
             /\ call' = [k \in {"op", "token", "ret", "after_revoke"} |-> th[k]]
             /\ revoked' = IF th.op = "revoke_token" /\ th.ret = TRUE
                           THEN revoked \cup {th.token} ELSE revoked
    /\ UNCHANGED <<cm, sessions, messages, ops, tts, cookies, extracted>>

NextTok == TokLoad \/ TokSave

SpecTok == InitAuth /\ [][NextTok]_vars

\* C30: once a revoke_token call on a token has returned True, no
\* validate_token call on that token that starts afterwards returns user
\* info, however the loads and writes of concurrent validate_token,
\* increment_session_count, add_token and revoke_token calls interleave.
C30_RevocationSticks ==
    (call.op = "validate_token" /\ call.after_revoke) => call.ret = PyNone

\* C18: once a token is revoked its holder no longer gets in: a request to
\* a guarded endpoint from a browser whose session was authenticated with
\* that token is rejected, also when the session was authenticated before
\* the revocation.
C18_RevokedIsLockedOut ==
    (call.op = "request"
       /\ "token" \in DOMAIN CookieOf(call.browser)
       /\ CookieOf(call.browser).token \in DOMAIN tokens
       /\ ~tokens[CookieOf(call.browser).token].active)
    => call.status = 401

(***************************************************************************)
(* Properties of the ContextManager, checked under SpecCtx                 *)
(***************************************************************************)

\* C3: for every message count n >= 0 and interval >= 1, should_extract(n)
\* is true exactly when floor(n/2) is a positive multiple of the interval;
\* it is false for n = 0 and leaves the ContextManager as it was.
C3_ShouldExtractIff ==
    call.op = "should_extract" =>
        LET n == call.message_count
            interval == call.self.extraction_interval
        IN /\ interval >= 1
           /\ call.ret <=> \E k \in 1..n : n \div 2 = k * interval
           /\ (n = 0 => ~call.ret)
           /\ cm = call.self

C3_Witness ==
    /\ call.op = "should_extract"
    /\ call.self.extraction_interval = 3
    /\ call.message_count = 13
    /\ call.ret

\* C4 as stated: with interval 10, should_extract(n) is false for n in
\* 0..19, true for n = 20, false for n in 21..39 and true for n = 40.
C4_AsStated ==
    (call.op = "should_extract" /\ call.self.extraction_interval = 10
       /\ call.message_count \in 0..40) =>
        (call.ret <=> call.message_count \in {20, 40})

\* C4 amended: with interval 10, should_extract(n) is false for n in 0..19,
\* true for n = 20 and n = 21, false for n in 22..39 and true for n = 40.
C4_IntervalTen ==
    (call.op = "should_extract" /\ call.self.extraction_interval = 10
       /\ call.message_count \in 0..40) =>
        (call.ret <=> call.message_count \in {20, 21, 40})

C4_Witness ==
    /\ call.op = "should_extract"
    /\ call.self.extraction_interval = 10
    /\ call.message_count = 21
    /\ call.ret

Accumulating == {"topics_discussed", "key_insights", "people_mentioned",
                 "lessons_learned"}
Replaced == {"open_questions", "follow_up_topics"}

\* the list a record holds for a category, empty when it holds none
ListOf(v, k) == IF v.t = "dict" THEN Get(v.d, k, <<>>) ELSE <<>>

\* C6: merging the same new record a second time gives the same topics, key
\* insights, people and lessons learned as merging it once.
C6_MergeIdempotent ==
    (call.op = "merge_knowledge" /\ call.again /\ call.ret.ok) =>
        \A k \in Accumulating :
            ListOf(call.ret.val, k) = ListOf(call.existing, k)

\* C7: whenever the new record is present, the merged record's open
\* questions and follow-up topics are exactly those of the new record.
C7_ReplacedByNew ==
    (call.op = "merge_knowledge" /\ call.new # PyNone /\ call.ret.ok) =>
        \A k \in Replaced :
            ListOf(call.ret.val, k) = ListOf(call.new, k)

\* the items of c whose lower-cased form occurs at no earlier position
FirstOccurrences(c) ==
    LET keep == {i \in 1..Len(c) :
                    \A j \in 1..(i - 1) : Lower(c[j]) # Lower(c[i])}
    IN [k \in 1..Cardinality(keep) |->
          c[CHOOSE i \in keep : Cardinality({j \in keep : j < i}) = k - 1]]

\* C9: _merge_unique(a, b) is a followed by b with every item dropped whose
\* lower-cased form occurred earlier: first-seen casing, order kept, no two
\* items equal ignoring case; ["ALE","MS-DMT"] + ["ale","MARS-ALE"] gives
\* ["ALE","MS-DMT","MARS-ALE"].
C9_MergeUnique ==
    call.op = "_merge_unique" =>
        /\ call.ret = FirstOccurrences(call.list1 \o call.list2)
        /\ \A i, j \in 1..Len(call.ret) :
              i # j => Lower(call.ret[i]) # Lower(call.ret[j])
        /\ (call.list1 = <<"ALE", "MS-DMT">> /\ call.list2 = <<"ale", "MARS-ALE">>
              => call.ret = <<"ALE", "MS-DMT", "MARS-ALE">>)

C9_Witness ==
    /\ call.op = "_merge_unique"
    /\ call.list1 = <<"ALE", "MS-DMT">>
    /\ call.list2 = <<"ale", "MARS-ALE">>
    /\ call.ret = <<"ALE", "MS-DMT", "MARS-ALE">>

\* the key of an insight (topic) or a person (name), ignoring case
KeyOf(item, key) == Lower(Get(item, key, ""))

\* the items of new that are appended: those whose key matches no item of
\* existing and no earlier item of new
NewKept(key, existing, new) ==
    LET keep == {i \in 1..Len(new) :
                    /\ \A j \in 1..Len(existing) :
                          KeyOf(existing[j], key) # KeyOf(new[i], key)
                    /\ \A j \in 1..(i - 1) :
                          KeyOf(new[j], key) # KeyOf(new[i], key)}
    IN [k \in 1..Cardinality(keep) |->
          new[CHOOSE i \in keep : Cardinality({j \in keep : j < i}) = k - 1]]

\* C19: _merge_insights (resp. _merge_people) returns existing unchanged
\* followed by exactly those items of new, in order, whose topic (resp.
\* name) matches, ignoring case, neither an item of existing nor an earlier
\* item of new; an item of new never replaces or alters an existing item.
C19_MergeKeyed ==
    call.op \in {"_merge_insights", "_merge_people"} =>
        /\ call.ret = call.existing \o NewKept(call.key, call.existing, call.new)
        /\ SubSeq(call.ret, 1, Len(call.existing)) = call.existing

\* an insight of new dropped for an existing topic in another casing, and
\* one appended after it
C19_Witness ==
    /\ call.op = "_merge_insights"
    /\ call.existing = <<Insight("ALE", "i1")>>
    /\ call.new = <<Insight("ale", "i2"), Insight("MS-DMT", "i3")>>
    /\ call.ret = <<Insight("ALE", "i1"), Insight("MS-DMT", "i3")>>

(***************************************************************************)
(* Properties of the orchestrator, checked under Spec                      *)
(***************************************************************************)

\* the session's event log
Log(msgs, session_id) == Message_get_by_session(msgs, session_id)

\* user messages directly followed by an assistant reply
CompletedExchanges(log) ==
    Cardinality({i \in 1..(Len(log) - 1) :
                    log[i].role = "user" /\ log[i + 1].role = "assistant"})

\* C1: a process_input call reports extraction_triggered exactly when the
\* number of completed exchanges (user messages with a paired assistant
\* reply), the current turn included, is a positive multiple of the
\* extraction interval.
C1_TriggerEveryInterval ==
    (call.op = "process_input" /\ call.ok) =>
        LET done == CompletedExchanges(Log(messages, call.session_id))
        IN call.ret.extraction_triggered <=>
              (done > 0 /\ done % cm.extraction_interval = 0)

\* C2: a process_input call that succeeds appends exactly two messages to
\* the session's log, the user message and then the assistant reply, and no
\* step ever lowers a session's character total or cost total.
C2_TurnAddsTwo ==
    [][/\ (call'.op = "process_input" /\ call'.ok) =>
             LET sid == call'.session_id
                 before == Log(messages, sid)
                 after == Log(messages', sid)
             IN /\ Len(after) = Len(before) + 2
                /\ SubSeq(after, 1, Len(before)) = before
                /\ after[Len(before) + 1].role = "user"
                /\ after[Len(before) + 2].role = "assistant"
                /\ after[Len(before) + 2].content = call'.ret.response_text
       /\ \A sid \in DOMAIN sessions :
             /\ sid \in DOMAIN sessions'
             /\ sessions'[sid].total_chars_synthesized
                   >= sessions[sid].total_chars_synthesized
             /\ sessions'[sid].estimated_cost >= sessions[sid].estimated_cost
      ]_vars

C2_Witness ==
    /\ call.op = "process_input" /\ call.ok
    /\ Len(Log(messages, call.session_id)) = 5
    /\ sessions[call.session_id].total_chars_synthesized
          = Len(GREETING) + 2 * Len("Go on.")
    /\ sessions[call.session_id].estimated_cost
          = COST_PER_CHAR * (Len(GREETING) + 2 * Len("Go on."))

\* the knowledge record a session row holds, None when it holds none
StoredKnowledge(row) ==
    LET col == row.extracted_knowledge
    IN IF col.c = "NULL" \/ col.text = <<>> THEN PyNone
       ELSE LET parsed == json_loads(col.text)
            IN IF parsed.ok THEN parsed.val ELSE PyNone

\* the lower-cased keys a record holds in an accumulating category
KeySet(v, k) ==
    LET items == ListOf(v, k)
    IN {Lower(CASE k = "key_insights" -> Get(items[i], "topic", "")
                [] k = "people_mentioned" -> Get(items[i], "name", "")
                [] OTHER -> items[i]) : i \in 1..Len(items)}

\* C8: the stored knowledge record only grows in its accumulating
\* categories: no step removes a topic, an insight topic, a person name or
\* a lesson (compared ignoring case) from a session's stored record.
C8_KnowledgeGrows ==
    [][\A sid \in DOMAIN sessions :
          /\ sid \in DOMAIN sessions'
          /\ \A k \in Accumulating :
                KeySet(StoredKnowledge(sessions[sid]), k)
                   \subseteq KeySet(StoredKnowledge(sessions'[sid]), k)
      ]_vars

\* a record that two extractions built: the topics of the first, then the
\* new topic of the second
C8_Witness ==
    /\ call.op \in {"process_input", "end_session"} /\ call.ok
    /\ call.extraction.called
    /\ ListOf(StoredKnowledge(sessions[call.session_id]), "topics_discussed")
          = <<"MS-DMT", "ALE">>

\* C10: whatever text the extraction model replies, the extraction step
\* does not raise: the process_input or end_session call that ran it
\* returns normally.
C10_ExtractionNeverRaises ==
    (call.op \in {"process_input", "end_session"}
       /\ call.extraction.called /\ call.extraction.response.ok)
    => call.ok

\* a record with all seven categories, each holding a list
IsCompleteRecord(v) == v.t = "dict" /\ DOMAIN v.d = Categories

\* C11: whatever the extraction model replied, a session's stored knowledge
\* record is either absent or a document with all seven categories, and
\* get_extracted_knowledge always returns a record with all seven categories.
C11_StoredRecordComplete ==
    /\ \A sid \in DOMAIN sessions :
          \/ sessions[sid].extracted_knowledge.c = "NULL"
          \/ IsCompleteRecord(StoredKnowledge(sessions[sid]))
    /\ (call.op = "get_extracted_knowledge" /\ call.ok)
          => IsCompleteRecord(call.ret)

\* C12: process_input with a session id that does not exist fails with a
\* NotFound error and leaves the store as it was: no message appended, no
\* session row created or modified, neither the conversational model nor
\* speech synthesis invoked.
C12_UnknownSessionNotFound ==
    [][(call'.op = "process_input" /\ call'.session_id \notin DOMAIN sessions)
          => /\ ~call'.ok
             /\ call'.err = "NotFound"
             /\ sessions' = sessions
             /\ messages' = messages
             /\ call'.invoked = <<>>
      ]_vars

\* C13: when the conversational model call fails during process_input, the
\* provider's error reaches the caller after a single invocation, the user
\* message appended before the call stays last in the log (no assistant
\* message after it), and the sessions table, with its character totals,
\* cost totals and knowledge records, is exactly as before the call.
C13_ModelFailureLeavesOrphan ==
    [][(call'.op = "process_input" /\ ~call'.ok /\ "claude" \in
           {call'.invoked[i] : i \in 1..Len(call'.invoked)}
           /\ "tts" \notin {call'.invoked[i] : i \in 1..Len(call'.invoked)})
          => LET sid == call'.session_id
                 before == Log(messages, sid)
                 after == Log(messages', sid)
             IN /\ call'.err = "APIError"
                /\ call'.invoked = <<"claude">>
                /\ Len(after) = Len(before) + 1
                /\ SubSeq(after, 1, Len(before)) = before
                /\ after[Len(after)].role = "user"
                /\ sessions' = sessions
      ]_vars

C13_Witness ==
    /\ call.op = "process_input" /\ ~call.ok /\ call.err = "APIError"
    /\ call.invoked = <<"claude">>
    /\ LET log == Log(messages, call.session_id)
       IN /\ Len(log) = 4
          /\ log[3].role = "assistant"
          /\ log[4].role = "user"
    /\ sessions[call.session_id].total_chars_synthesized
          = Len(GREETING) + Len("Go on.")

\* C14: every successful process_input call returns an exchange count equal
\* to the number of messages in the session's log after the turn,
\* integer-divided by 2.
C14_ExchangeCount ==
    (call.op = "process_input" /\ call.ok) =>
        call.ret.message_count = Len(Log(messages, call.session_id)) \div 2

C20_SegmentAndPersist ==
    [][(call'.op \in {"process_input", "end_session"} /\ call'.extraction.called)
          => LET sid == call'.session_id
                 log == Log(messages', sid)
                 n == Len(log)
                 k == Min(20, n)
                 new == extract(call'.extraction.response)
             IN /\ call'.segment = [i \in 1..k |-> strip_message(log[n - k + i])]
                /\ call'.ok =>
                      /\ new.ok
                      /\ Ok(StoredKnowledge(sessions'[sid]))
                            = merge_knowledge(StoredKnowledge(sessions[sid]),
                                              new.val)
      ]_vars

\* the extraction triggered by the tenth exchange: 21 messages in the log,
\* the greeting left out of the segment
C20_Witness ==
    /\ call.op = "process_input" /\ call.ok /\ call.ret.extraction_triggered
    /\ Len(Log(messages, call.session_id)) = 21
    /\ Len(call.segment) = 20
    /\ call.segment[1] = [role |-> "user", content |-> "u1"]
    /\ call.segment[20] = [role |-> "assistant", content |-> "r10"]
    /\ StoredKnowledge(sessions[call.session_id]) # PyNone

(***************************************************************************)
(* Claims about the statements of a call, checked under SpecSteps          *)
(***************************************************************************)

\* the log ends with the user message of the turn thread record th serves
EndsWithUser(log, th) ==
    /\ Len(log) >= 1
    /\ strip_message(log[Len(log)]) = [role |-> "user", content |-> th.user_text]

\* the log ends with the user message and the assistant reply of the turn
EndsWithExchange(log, th) ==
    /\ Len(log) >= 2
    /\ strip_message(log[Len(log) - 1])
          = [role |-> "user", content |-> th.user_text]
    /\ strip_message(log[Len(log)])
          = [role |-> "assistant", content |-> th.loc.response_text]

\* C21: within process_input the user message is in the log before the
\* conversational model is invoked, the assistant reply is in the log before
\* speech synthesis is invoked, and the extraction model is called only
\* after the reply is in the log and the cost counters are updated; a
\* failure of synthesis or of extraction leaves both messages in the log.
C21_TurnOrder ==
    [][\A t \in Threads :
          LET th == threads[t]
              after == threads'[t]
              sid == th.session_id
              log == Log(messages, sid)
          IN (th.op = "process_input" /\ th.pc # "done" /\ after # th) =>
                /\ after.invoked = Append(th.invoked, "claude") =>
                      /\ EndsWithUser(log, th)
                      /\ messages' = messages
                /\ after.invoked = Append(th.invoked, "tts") =>
                      /\ EndsWithExchange(log, th)
                      /\ messages' = messages
                /\ after.invoked = Append(th.invoked, "extractor") =>
                      /\ EndsWithExchange(log, th)
                      /\ sessions[sid].total_chars_synthesized
                            = th.loc.session.total_chars_synthesized
                              + Len(th.loc.response_text)
                      /\ sessions[sid].estimated_cost
                            = th.loc.session.estimated_cost
                              + calculate_cost(Len(th.loc.response_text))
                /\ (th.pc \in {"tts", "extract"} /\ after.pc = "done" /\ ~after.ok) =>
                      /\ EndsWithExchange(Log(messages', sid), th)
                      /\ Log(messages', sid) = log
      ]_vars

\* a turn whose extraction failed after all three providers were invoked:
\* greeting, user message and reply are in the log, the counters are updated
C21_Witness ==
    \E t \in Threads :
       /\ threads[t].op = "process_input"
       /\ threads[t].pc = "done" /\ ~threads[t].ok
       /\ threads[t].invoked = <<"claude", "tts", "extractor">>
       /\ Len(Log(messages, threads[t].session_id)) = 3
       /\ sessions[threads[t].session_id].total_chars_synthesized
             = Len(GREETING) + Len("Go on.")

\* C23: a session's log is append-only while the session is not deleted: a
\* step either leaves the log as a prefix of the new log, or it deletes the
\* session, and then all of its messages are gone together with its row.
C23_LogAppendOnly ==
    [][\A sid \in {SessionOf(t) : t \in Threads} :
          LET before == Log(messages, sid)
              after == Log(messages', sid)
          IN IF sid \in DOMAIN sessions /\ sid \notin DOMAIN sessions'
             THEN after = <<>>
             ELSE /\ Len(after) >= Len(before)
                  /\ SubSeq(after, 1, Len(before)) = before
      ]_vars

\* a session was deleted while the other one had messages: none of its
\* messages is left, the other session's log is still there
C23_Witness ==
    \E t \in Threads :
       /\ threads[t].op = "delete_session"
       /\ threads[t].pc = "done" /\ threads[t].ok
       /\ SessionOf(t) \notin DOMAIN sessions
       /\ Log(messages, SessionOf(t)) = <<>>
       /\ \E u \in Threads \ {t} : Len(Log(messages, SessionOf(u))) >= 2

\* C24: whatever thread takes a step of an operation on its session, the
\* other session keeps its log, its row (knowledge, status, counters) and
\* its existence, in every interleaving of the two threads' statements.
C24_OtherSessionUnchanged ==
    [][\A t \in Threads :
          threads'[t] # threads[t] =>
             \A u \in Threads \ {t} :
                LET other == SessionOf(u)
                IN /\ Log(messages', other) = Log(messages, other)
                   /\ (other \in DOMAIN sessions') = (other \in DOMAIN sessions)
                   /\ other \in DOMAIN sessions =>
                         sessions'[other] = sessions[other]
      ]_vars

\* a session was deleted while the other thread was inside a turn, after
\* its reply was saved and before synthesis: that turn's log is whole
C24_Witness ==
    /\ threads["t1"].op = "delete_session"
    /\ threads["t1"].pc = "done" /\ threads["t1"].ok
    /\ threads["t2"].op = "process_input" /\ threads["t2"].pc = "tts"
    /\ "s1" \notin DOMAIN sessions
    /\ Len(Log(messages, "s2")) = 3

(***************************************************************************)
(* Claims about the turn and the session's life, checked under Spec        *)
(***************************************************************************)

\* the session has no knowledge yet: no record, or one with every category
\* empty
NoKnowledge(v) ==
    v = PyNone \/ (v.t = "dict" /\ \A k \in Categories : ListOf(v, k) = <<>>)

\* C22: when process_input invokes the conversational model for a session
\* that has no knowledge yet (no stored record, or a record whose categories
\* are all empty), the system prompt sent is the interviewer prompt followed
\* by the note "No knowledge extracted yet.".
C22_PlaceholderWhenNoKnowledge ==
    [][(/\ call'.op = "process_input" /\ call'.ok
        /\ call'.invoked # <<>> /\ call'.invoked[1] = "claude"
        /\ NoKnowledge(StoredKnowledge(sessions[call'.session_id])))
          => call'.system
                = [prompt |-> "INTERVIEWER_SYSTEM_PROMPT",
                   knowledge |-> <<[section |-> "No knowledge extracted yet.",
                                    items |-> <<>>]>>]
      ]_vars

\* the reply holds no JSON that parses, neither as a whole nor between its
\* first "{" and its last "}": extract returns the all-empty record
Unparseable(text) ==
    /\ ~json_loads(text).ok
    /\ LET start_idx == find_open(text)
           end_idx == rfind_close(text) + 1
       IN ~(/\ start_idx # -1 /\ end_idx > start_idx
            /\ json_loads(SubSeq(text, start_idx + 1, end_idx)).ok)

\* C25: an extraction pass whose reply cannot be parsed loses nothing: after
\* the merge the stored record holds in every category, open_questions and
\* follow_up_topics included, what it held before the pass.
C25_UnparsedReplyLosesNothing ==
    [][(/\ call'.op \in {"process_input", "end_session"}
        /\ call'.extraction.called
        /\ call'.extraction.response.ok
        /\ Unparseable(call'.extraction.response.val))
          => \A k \in Categories :
                ListOf(StoredKnowledge(sessions'[call'.session_id]), k)
                   = ListOf(StoredKnowledge(sessions[call'.session_id]), k)
      ]_vars

(***************************************************************************)
(* Claim about the sliding window, checked under SpecDrop                  *)
(***************************************************************************)

\* C26: under the default settings (window 30, interval 10, lookback 20),
\* also when turns fail at the model or at synthesis, every user message of
\* the log that is not in the context window built for a turn was in the
\* segment of an extraction pass made before that turn.
C26_DroppedWasExtracted ==
    [][(call'.op = "process_input" /\ call'.ok) =>
          LET log == Log(messages', call'.session_id)
              context == call'.context
          IN \A i \in 1..Len(log) :
                (/\ log[i].role = "user"
                 /\ \A j \in 1..Len(context) :
                       context[j].content # log[i].content)
                   => log[i].content \in extracted
      ]_vars

(***************************************************************************)
(* Claims about the session's life, checked under Spec                     *)
(***************************************************************************)

\* C27: a session's status is "active" from its creation until an
\* end_session on it succeeds and "completed" from then on: only a
\* successful end_session changes it, nothing turns "completed" back into
\* "active", nothing sets "abandoned", and an end_session that fails leaves
\* the status as it was.
C27_StatusLifecycle ==
    [][\A sid \in DOMAIN sessions' :
          LET status == sessions'[sid].status
              ended == /\ call'.op = "end_session"
                       /\ call'.session_id = sid
          IN /\ status \in {"active", "completed"}
             /\ sid \notin DOMAIN sessions => status = "active"
             /\ sid \in DOMAIN sessions =>
                   /\ sessions[sid].status = "completed" => status = "completed"
                   /\ status # sessions[sid].status => (ended /\ call'.ok)
                   /\ (ended /\ call'.ok) => status = "completed"
                   /\ (ended /\ ~call'.ok) => status = sessions[sid].status
      ]_vars

\* an end_session whose final extraction failed: the session, with its
\* first exchange in the log, is still active
C27_Witness ==
    /\ call.op = "end_session" /\ ~call.ok /\ call.extraction.called
    /\ Len(Log(messages, call.session_id)) = 3
    /\ sessions[call.session_id].status = "active"

\* C28: once end_session has completed a session, a process_input on it is
\* rejected and appends nothing, so that the message count end_session
\* stored equals the length of the session's log ever after.
C28_NoTurnAfterEnd ==
    [][\A sid \in DOMAIN sessions :
          sessions[sid].status = "completed" =>
             /\ (call'.op = "process_input" /\ call'.session_id = sid) =>
                   /\ ~call'.ok
                   /\ Log(messages', sid) = Log(messages, sid)
             /\ sessions'[sid].message_count = Len(Log(messages', sid))
      ]_vars

(***************************************************************************)
(* Claim about the voice configuration of cached audio, checked under      *)
(* SpecTts                                                                 *)
(***************************************************************************)

====
